---- MODULE Spec2Model ----
(***************************************************************************)
(* Model of the Executable / Action / Step / Plan engine of                *)
(* cli-plan-executor.  Two variants of the engine live in the repository:  *)
(*   "step"  - Action is stateless, a Step binds it to params and is the   *)
(*             Executable; Plan extends Executable (src/action.ts,         *)
(*             src/plan.ts, src/index.ts);                                 *)
(*   "bound" - Action carries its params and is itself the Executable;     *)
(*             Plan extends Action (the bound-params action, handler,      *)
(*             command-line and plan classes).                             *)
(* An execute(ctx) call is modelled as a stack of async frames; every      *)
(* await is a step of the state machine.                                   *)
(***************************************************************************)
EXTENDS Integers, Sequences, FiniteSets, TLC

VARIABLES variant, executables, pc, ctx, stack, ret, outcome, log, effects, trace, fn,
          other

vars == <<variant, executables, pc, ctx, stack, ret, outcome, log, effects, trace, fn, other>>

(* ---------------- bounds ---------------- *)
MaxMembers == 3
MaxInner == 2
MaxDepth == 4
MaxAppended == 2

(* ---------------- values ---------------- *)
Undefined == [t |-> "undefined"]
Str(s) == [t |-> "string", s |-> s]
Arr(a) == [t |-> "array", a |-> a]
Obj(kv) == [t |-> "object", kv |-> kv]
Circular == [t |-> "circular"]
CommandResult(o, e) == [t |-> "CommandResult", stdout |-> o, stderr |-> e]
TypeError(m) == [t |-> "error", name |-> "TypeError", message |-> m]
HandlerFailure(n, how) == [t |-> "error", name |-> "HandlerFailure", from |-> n, how |-> how]
ExecException(cause, cmd) == [t |-> "error", name |-> "ExecException", cause |-> cause, cmd |-> cmd]

Value(v) == [k |-> "value", v |-> v]
Throw(e) == [k |-> "error", v |-> e]
None == [k |-> "none"]
Null == [t |-> "null"]

(* ---------------- the executables ---------------- *)
Plans == {"cleanup", "sub-plan"}
Leaves == {"delete-tmp", "delete-dist", "bad"}
Nodes == Plans \cup Leaves

(* what each leaf is built from: the action class, the action's id and the
   bound params; under "step" the leaf is Step(n, action, params), under
   "bound" it is the action itself, constructed with id n and params *)
LeafDef(n) ==
  CASE n = "delete-tmp" -> [cls |-> "HandlerAction", actionId |-> "handler",
                             params |-> Obj(<< <<"pattern", "tmp">> >>)]
    [] n = "delete-dist" -> [cls |-> "CommandLineAction", actionId |-> "cmd",
                             params |-> Obj(<< <<"command", "rm -rf dist">> >>)]
    [] n = "bad" -> [cls |-> "HandlerAction", actionId |-> "handler",
                             params |-> Circular]

(* Executable.id *)
IdOf(n) == n

(* the id of the Action object a leaf runs *)
ActionIdOf(n) == IF variant = "step" THEN LeafDef(n).actionId ELSE IdOf(n)

(* ---------------- ExecutionContext ---------------- *)
ProcessEnv == [PATH |-> "/bin", TEST_ENV |-> "0"]
NoEnv == [set |-> FALSE, map |-> [k \in {} |-> ""]]
Env(m) == [set |-> TRUE, map |-> m]
Context(cwd, dryRun, env) == [cwd |-> cwd, dryRun |-> dryRun, env |-> env]
Contexts ==
  { Context("/work", "true", NoEnv), Context("/work", "undefined", NoEnv),
    Context("/work", "false", NoEnv), Context("/work", "false", Env([TEST_ENV |-> "1"])) }
NoCtx == [cwd |-> "", dryRun |-> "undefined", env |-> NoEnv]

(* if (ctx.dryRun) *)
Truthy(d) == d = "true"

(* ---------------- pure functions ---------------- *)
RECURSIVE Join(_, _)
Join(ss, sep) ==
  IF Len(ss) = 0 THEN ""
  ELSE IF Len(ss) = 1 THEN ss[1]
  ELSE ss[1] \o sep \o Join(Tail(ss), sep)

(* the escapes JSON.stringify writes inside a string, on the strings of the
   model: the only one holding a character to escape is echo "hello" *)
Escape(s) == IF s = "echo \"hello\"" THEN "echo \\\"hello\\\"" ELSE s

Quote(s) == "\"" \o Escape(s) \o "\""

(* JSON.stringify on the params values of the model *)
JSONStringify(p) ==
  CASE p.t = "undefined" -> Value(Undefined)
    [] p.t = "circular" -> Throw(TypeError("Converting circular structure to JSON"))
    [] p.t = "object" ->
         Value(Str("{" \o Join([i \in 1..Len(p.kv) |->
                      Quote(p.kv[i][1]) \o ":" \o Quote(p.kv[i][2])], ",") \o "}"))

(* `${x}` *)
Template(x) == IF x.t = "undefined" THEN "undefined" ELSE x.s

(* describe without the parentheses: `${this.id} ${JSON.stringify(params)}` *)
ActionDescribe_NoParens(id, params) ==
  LET j == JSONStringify(params)
  IN IF j.k = "error" THEN j ELSE Value(Str(id \o " " \o Template(j.v)))

(* Action.describe: `${this.id}(${JSON.stringify(params)})` *)
ActionDescribe(id, params) ==
  LET j == JSONStringify(params)
  IN IF j.k = "error" THEN j ELSE Value(Str(id \o "(" \o Template(j.v) \o ")"))

(* property lookup params[key] *)
RECURSIVE Lookup(_, _)
Lookup(kv, key) ==
  IF Len(kv) = 0 THEN Undefined
  ELSE IF kv[1][1] = key THEN Str(kv[1][2])
  ELSE Lookup(Tail(kv), key)

(* the default CommandBuilder: (params) => params.command *)
DefaultCommandBuilder(params) ==
  CASE params.t = "undefined" ->
         Throw(TypeError("Cannot read properties of undefined (reading 'command')"))
    [] params.t = "circular" -> Value(Undefined)
    [] params.t = "object" -> Value(Lookup(params.kv, "command"))

(* CommandLineAction.describe *)
CommandLineDescribe(params) == DefaultCommandBuilder(params)

(* action.describe(params), dispatched on the action's class *)
Describe(n) ==
  IF LeafDef(n).cls = "CommandLineAction"
  THEN CommandLineDescribe(LeafDef(n).params)
  ELSE ActionDescribe(ActionIdOf(n), LeafDef(n).params)

(* Plan.describe of the bound variant:
   `${this.id} [${this.executables.map(e => e.id).join(', ')}]` *)
PlanDescribe(p) ==
  Value(Str(IdOf(p) \o " [" \o
        Join([i \in 1..Len(executables[p]) |-> IdOf(executables[p][i])], ", ") \o "]"))

(* a Step that logs without its own id *)
StepDryRunLine_NoId(id, description) ==
  "[dry-run] " \o Template(description)

(* the console.log line of Step.execute *)
StepDryRunLine(id, description) ==
  "[dry-run][step:" \o id \o "] " \o Template(description)

(* an Action that logs under the tag of a Step *)
ActionDryRunLine_StepTag(id, description) ==
  "[dry-run][step:" \o id \o "] " \o Template(description)

(* the console.log line of Action.execute (bound variant) *)
ActionDryRunLine(id, description) ==
  "[dry-run][action:" \o id \o "] " \o Template(description)

(* { ...ctx.env, ...process.env } *)
MergeEnv_AmbientWins(ambient, c) ==
  IF c.env.set
  THEN [k \in (DOMAIN ambient) \cup (DOMAIN c.env.map) |->
          IF k \in DOMAIN ambient THEN ambient[k] ELSE c.env.map[k]]
  ELSE ambient

(* { ...process.env, ...ctx.env } *)
MergeEnv(ambient, c) ==
  IF c.env.set
  THEN [k \in (DOMAIN ambient) \cup (DOMAIN c.env.map) |->
          IF k \in DOMAIN c.env.map THEN c.env.map[k] ELSE ambient[k]]
  ELSE ambient

(* ---------------- describe and run of one action, on their own ------- *)
(* a builder handed to the constructor: (params) => `rm -rf ${params.pattern}` *)
CustomCommandBuilder(params) ==
  CASE params.t = "undefined" ->
         Throw(TypeError("Cannot read properties of undefined (reading 'pattern')"))
    [] params.t = "circular" -> Value(Str("rm -rf undefined"))
    [] params.t = "object" ->
         Value(Str("rm -rf " \o Template(Lookup(params.kv, "pattern"))))

(* this.commandBuilder(params) *)
Build(b, params) ==
  IF b = "default" THEN DefaultCommandBuilder(params) ELSE CustomCommandBuilder(params)

(* a CommandLineAction that does not override describe *)
CommandLineDescribeWith_Inherited(id, b, params) == ActionDescribe(id, params)

(* CommandLineAction.describe of an action built with builder b *)
CommandLineDescribeWith(id, b, params) == Build(b, params)

(* the command CommandLineAction.run hands to exec *)
RunCommand(b, params) == Build(b, params)

(* the inputs the functions are applied to *)
FnIds == {"sample", "cmd"}
FnBuilders == {"default", "rm"}
FnParams ==
  { Undefined, Circular, Obj(<<>>), Obj(<< <<"value", "abc">> >>),
    Obj(<< <<"command", "echo \"hello\"">> >>),
    Obj(<< <<"pattern", "dist">>, <<"command", "ls">> >>) }
FnAmbients == { [PATH |-> "/bin"], [PATH |-> "/bin", TEST_ENV |-> "0"] }
FnEnvs ==
  { NoEnv, Env([k \in {} |-> ""]), Env([TEST_ENV |-> "1"]),
    Env([TEST_ENV |-> "1", HOME |-> "/root"]) }
NoFn ==
  [id |-> "", builder |-> "default", params |-> Undefined, ambient |-> [PATH |-> "/bin"],
   ctx |-> NoCtx, described |-> None, command |-> None, env |-> None, text |-> None]

(* ---------------- frames ---------------- *)
(* a call that receives a copy of the context with dryRun cleared *)
Frame_CopiesCtx(n, c, st) ==
  [node |-> n, ctx |-> [c EXCEPT !.dryRun = "undefined"], st |-> st, i |-> 1, results |-> <<>>]

(* the activation of execute(ctx) on n *)
Frame(n, c, st) == [node |-> n, ctx |-> c, st |-> st, i |-> 1, results |-> <<>>]
Top == stack[Len(stack)]
Pop == SubSeq(stack, 1, Len(stack) - 1)
SetTop(f) == [stack EXCEPT ![Len(stack)] = f]
Running == pc = "run" /\ Len(stack) > 0

(* the plan frame the top frame was called from, "" for the top-level call *)
Caller == IF Len(stack) > 1 THEN stack[Len(stack) - 1].node ELSE ""

(* history of the run: "start" (execute called), "run" (handler invoked or
   command spawned), "cb" (exec calls back), "end" (promise resolved with
   v), "fail" (promise rejected with v); depth is the caller's frame *)
Event(e, n, d, b, v) == [ev |-> e, node |-> n, depth |-> d, by |-> b, v |-> v]
Settled(c, n) ==
  Event(IF c.k = "error" THEN "fail" ELSE "end", n, Len(stack) - 1, Caller, c)

(* a second execute call on the same plan: the call that is not running at
   the moment, with its own activation frames, pending settlement and
   history *)
NoOther ==
  [pc |-> "none", ctx |-> NoCtx, stack |-> <<>>, ret |-> None, outcome |-> None,
   trace |-> <<>>]

(* ---------------- initial state ---------------- *)
Init ==
  /\ variant \in {"step", "bound"}
  /\ executables = [p \in Plans |-> <<>>]
  /\ pc = "build"
  /\ ctx = NoCtx
  /\ stack = <<>>
  /\ ret = None
  /\ outcome = None
  /\ log = <<>>
  /\ effects = <<>>
  /\ trace = <<>>
  /\ fn = NoFn
  /\ other = NoOther

(* ---------------- Plan.add ---------------- *)
(* the executables offered to add: the outer plan takes the leaves and the
   inner plan, the inner plan takes two of the leaves *)
Addable(p) == IF p = "cleanup" THEN Leaves \cup {"sub-plan"} ELSE {"delete-tmp", "delete-dist"}
Capacity(p) == IF p = "cleanup" THEN MaxMembers ELSE MaxInner

(* an add that puts the executable in front: this.executables.unshift(executable) *)
Push_Unshift(s, e) == <<e>> \o s

(* this.executables.push(executable) *)
Push(s, e) == Append(s, e)

Add(p, e) ==
  /\ pc = "build"
  /\ Len(executables[p]) < Capacity(p)
  /\ executables' = [executables EXCEPT ![p] = Push(@, e)]
  /\ UNCHANGED <<other, fn, variant, pc, ctx, stack, ret, outcome, log, effects, trace>>

(* ---------------- the top-level execute(ctx) call ---------------- *)
(* the plans an execute call on n can reach *)
Reach(n) ==
  IF n \notin Plans THEN {}
  ELSE {n} \cup {p \in Plans : \E i \in 1..Len(executables[n]) : executables[n][i] = p}

(* a plan the call cannot reach has no part in the run: the call is explored
   with such plans still empty *)
Execute(n, c) ==
  /\ pc = "build"
  /\ \A p \in Plans \ Reach(n) : executables[p] = <<>>
  /\ pc' = "run"
  /\ ctx' = c
  /\ stack' = <<Frame(n, c, "call")>>
  /\ trace' = Append(trace, Event("start", n, 0, "", None))
  /\ UNCHANGED <<other, fn, variant, executables, ret, outcome, log, effects>>

(* ---------------- leaves: run ---------------- *)
(* a run that invokes the handler twice *)
HandlerRun_Twice(n, c) ==
  /\ effects' = effects \o << [kind |-> "handler", node |-> n,
                                params |-> LeafDef(n).params, ctx |-> c],
                               [kind |-> "handler", node |-> n,
                                params |-> LeafDef(n).params, ctx |-> c] >>
  /\ stack' = SetTop([Top EXCEPT !.st = "io"])
  /\ trace' = Append(trace, Event("run", n, Len(stack) - 1, Caller, None))
  /\ UNCHANGED ret

(* a run that starts the handler and returns without waiting for it *)
HandlerRun_FireAndForget(n, c) ==
  /\ effects' = Append(effects, [kind |-> "handler", node |-> n,
                                 params |-> LeafDef(n).params, ctx |-> c])
  /\ stack' = Pop
  /\ ret' = Value(Undefined)
  /\ trace' = trace \o << Event("run", n, Len(stack) - 1, Caller, None),
                          Settled(Value(Undefined), n) >>

(* HandlerAction.run: return this.handler(params, ctx) *)
HandlerRun(n, c) ==
  /\ effects' = Append(effects, [kind |-> "handler", node |-> n,
                                 params |-> LeafDef(n).params, ctx |-> c])
  /\ stack' = SetTop([Top EXCEPT !.st = "io"])
  /\ trace' = Append(trace, Event("run", n, Len(stack) - 1, Caller, None))
  /\ UNCHANGED ret

(* child_process.exec rejects a command that is not a string before it
   spawns anything *)
ExecArgCheck(command) ==
  IF command.t = "string" THEN Value(command)
  ELSE Throw(TypeError("The \"command\" argument must be of type string"))

(* CommandLineAction.run up to the exec call *)
CommandLineRun(n, c) ==
  LET built == DefaultCommandBuilder(LeafDef(n).params)
      command == IF built.k = "error" THEN built ELSE ExecArgCheck(built.v)
      env == MergeEnv(ProcessEnv, c)
  IN IF command.k = "error"
     THEN /\ stack' = Pop
          /\ ret' = command
          /\ trace' = Append(trace, Settled(command, n))
          /\ UNCHANGED effects
     ELSE /\ effects' = Append(effects, [kind |-> "exec", node |-> n,
                                         command |-> command.v.s, cwd |-> c.cwd, env |-> env])
          /\ stack' = SetTop([Top EXCEPT !.st = "io"])
          /\ trace' = Append(trace, Event("run", n, Len(stack) - 1, Caller, None))
          /\ UNCHANGED ret

(* action.run(params, ctx), dispatched on the action's class *)
Run(n, c) ==
  IF LeafDef(n).cls = "CommandLineAction" THEN CommandLineRun(n, c) ELSE HandlerRun(n, c)

(* the outcomes a handler can have *)
HandlerOutcomes == {"resolve", "reject", "throw"}

(* what the handler call produces: a value, a rejection or an exception *)
HandlerCall(n, o) ==
  IF o = "resolve" THEN Value(Str(n \o "-result")) ELSE Throw(HandlerFailure(n, o))

(* a run that wraps what the handler throws in an error of its own *)
HandlerResult_Wrapped(h) ==
  IF h.k = "error" THEN Throw([t |-> "error", name |-> "ActionError", cause |-> h.v]) ELSE h

(* async run(...) { return this.handler(params, ctx) } *)
HandlerResult(h) == h

(* the handler returns, throws or its promise settles *)
HandlerSettle(o) ==
  /\ Running
  /\ Top.st = "io"
  /\ LeafDef(Top.node).cls = "HandlerAction"
  /\ LET h == HandlerCall(Top.node, o)
         r == HandlerResult(h)
     IN /\ ret' = r
        /\ trace' = trace \o << Event("cb", Top.node, Len(stack) - 1, Caller, h),
                                Settled(r, Top.node) >>
  /\ stack' = Pop
  /\ UNCHANGED <<other, fn, variant, executables, pc, ctx, outcome, log, effects>>

(* what exec hands to its callback: error is null, or the error of a
   non-zero exit, of a kill by signal, or of a failed spawn; the error
   carries that cause and the command *)
ExecOutcomes == {"ok", "code:1", "signal:SIGTERM", "spawn:ENOENT"}

ExecError(o, command) == IF o = "ok" THEN Null ELSE ExecException(o, command)

(* the exec call the callback belongs to: the last one made for the leaf
   of the running call *)
LastExec ==
  LET S == {k \in 1..Len(effects) : effects[k].kind = "exec" /\ effects[k].node = Top.node}
  IN effects[CHOOSE k \in S : \A k2 \in S : k2 <= k]

(* a callback that resolves whatever error it is handed *)
ExecCallbackResult_IgnoresError(error, stdout, stderr) ==
  Value(CommandResult(stdout, stderr))

(* a callback that returns on an error without rejecting *)
ExecCallbackResult_NoReject(error, stdout, stderr) ==
  IF error.t # "null" THEN None
  ELSE Value(CommandResult(stdout, stderr))

(* (error, stdout, stderr) => { if (error) { reject(error); return; }
                                resolve({ stdout, stderr }); } *)
ExecCallbackResult(error, stdout, stderr) ==
  IF error.t # "null" THEN Throw(error)
  ELSE Value(CommandResult(stdout, stderr))

ExecCallback(o) ==
  /\ Running
  /\ Top.st = "io"
  /\ LeafDef(Top.node).cls = "CommandLineAction"
  /\ LET error == ExecError(o, LastExec.command)
         r == ExecCallbackResult(error, "out\n", "")
     IN /\ ret' = r
        /\ trace' = trace \o << Event("cb", Top.node, Len(stack) - 1, Caller, Throw(error)),
                                Settled(r, Top.node) >>
  /\ stack' = Pop
  /\ UNCHANGED <<other, fn, variant, executables, pc, ctx, outcome, log, effects>>

(* ---------------- Step.execute ("step" variant) ---------------- *)
(* a dry-run branch without its return: the line is logged and run is
   invoked all the same *)
DryRunBranch_FallsThrough(n, d, line) ==
  /\ log' = Append(log, line)
  /\ effects' = Append(effects, [kind |-> "run", node |-> n, ctx |-> Top.ctx])
  /\ ret' = Value(Undefined)
  /\ stack' = Pop
  /\ trace' = Append(trace, Settled(Value(Undefined), n))

(* a dry-run branch that catches what describe throws and resolves *)
DryRunBranch_Catches(n, d, line) ==
  /\ log' = IF d.k = "error" THEN log ELSE Append(log, line)
  /\ ret' = Value(Undefined)
  /\ stack' = Pop
  /\ trace' = Append(trace, Settled(Value(Undefined), n))
  /\ UNCHANGED effects

(* the dry-run branch of Step.execute and of Action.execute: d is the
   outcome of describe, line the log line for a description *)
DryRunBranch(n, d, line) ==
  IF d.k = "error"
  THEN /\ ret' = d
       /\ stack' = Pop
       /\ trace' = Append(trace, Settled(d, n))
       /\ UNCHANGED <<log, effects>>
  ELSE /\ log' = Append(log, line)
       /\ ret' = Value(Undefined)
       /\ stack' = Pop
       /\ trace' = Append(trace, Settled(Value(Undefined), n))
       /\ UNCHANGED effects

StepDryRun(n, c) ==
  LET d == Describe(n)
  IN DryRunBranch(n, d, IF d.k = "error" THEN "" ELSE StepDryRunLine(IdOf(n), d.v))

StepExecuteDryRun ==
  /\ Running
  /\ variant = "step"
  /\ Top.node \in Leaves
  /\ Top.st = "call"
  /\ Truthy(Top.ctx.dryRun)
  /\ StepDryRun(Top.node, Top.ctx)
  /\ UNCHANGED <<other, fn, variant, executables, pc, ctx, outcome>>

StepExecuteRun ==
  /\ Running
  /\ variant = "step"
  /\ Top.node \in Leaves
  /\ Top.st = "call"
  /\ ~Truthy(Top.ctx.dryRun)
  /\ Run(Top.node, Top.ctx)
  /\ UNCHANGED <<other, fn, variant, executables, pc, ctx, outcome, log>>

(* ---------------- Action.execute ("bound" variant) ---------------- *)
ActionDryRun(n, c) ==
  LET d == IF n \in Plans THEN PlanDescribe(n) ELSE Describe(n)
  IN DryRunBranch(n, d, IF d.k = "error" THEN "" ELSE ActionDryRunLine(IdOf(n), d.v))

ActionExecuteDryRun ==
  /\ Running
  /\ variant = "bound"
  /\ Top.st = "call"
  /\ Truthy(Top.ctx.dryRun)
  /\ ActionDryRun(Top.node, Top.ctx)
  /\ UNCHANGED <<other, fn, variant, executables, pc, ctx, outcome>>

ActionExecuteRun ==
  /\ Running
  /\ variant = "bound"
  /\ Top.node \in Leaves
  /\ Top.st = "call"
  /\ ~Truthy(Top.ctx.dryRun)
  /\ Run(Top.node, Top.ctx)
  /\ UNCHANGED <<other, fn, variant, executables, pc, ctx, outcome, log>>

(* ---------------- Plan ---------------- *)
(* a loop that starts at the second member *)
PlanEnter_SkipsFirst ==
  /\ stack' = SetTop([Top EXCEPT !.st = "loop", !.i = 2, !.results = <<>>])
  /\ UNCHANGED <<other, fn, variant, executables, pc, ctx, ret, outcome, log, effects, trace>>

(* Plan.execute ("step") and Plan.run ("bound") start alike:
   const results = [] and the loop over this.executables *)
PlanEnter ==
  /\ stack' = SetTop([Top EXCEPT !.st = "loop", !.i = 1, !.results = <<>>])
  /\ UNCHANGED <<other, fn, variant, executables, pc, ctx, ret, outcome, log, effects, trace>>

PlanExecute ==
  /\ Running
  /\ variant = "step"
  /\ Top.node \in Plans
  /\ Top.st = "call"
  /\ PlanEnter

(* Action.execute of a bound-variant Plan when ctx.dryRun is not set *)
PlanActionExecuteRun ==
  /\ Running
  /\ variant = "bound"
  /\ Top.node \in Plans
  /\ Top.st = "call"
  /\ ~Truthy(Top.ctx.dryRun)
  /\ PlanEnter

(* a loop that walks this.executables from the back *)
NextMember_Reversed(f) ==
  IF f.i <= Len(executables[f.node]) THEN Len(executables[f.node]) - f.i + 1 ELSE 0

(* a loop that passes over a member that is already executing *)
NextMember_SkipsActive(f) ==
  LET active == {stack[j].node : j \in 1..Len(stack)}
      S == {k \in f.i..Len(executables[f.node]) : executables[f.node][k] \notin active}
  IN IF S = {} THEN 0 ELSE CHOOSE k \in S : \A k2 \in S : k <= k2

(* the index of the member the loop visits next, 0 when the loop is over *)
NextMember(f) == IF f.i <= Len(executables[f.node]) THEN f.i ELSE 0

(* one turn of `for (const executable of this.executables)`:
   executable.execute(ctx) is called, or the loop ends and results is returned *)
PlanLoop ==
  /\ Running
  /\ Top.st = "loop"
  /\ LET f == Top
         k == NextMember(f)
     IN IF k # 0
        THEN /\ Len(stack) < MaxDepth
             /\ stack' = Append(SetTop([f EXCEPT !.st = "await"]),
                                Frame(executables[f.node][k], f.ctx, "call"))
             /\ trace' = Append(trace, Event("start", executables[f.node][k],
                                             Len(stack), f.node, None))
             /\ UNCHANGED ret
        ELSE /\ stack' = Pop
             /\ ret' = Value(Arr(f.results))
             /\ trace' = Append(trace, Settled(Value(Arr(f.results)), f.node))
  /\ UNCHANGED <<other, fn, variant, executables, pc, ctx, outcome, log, effects>>

(* results.push(...result) for a result that is an array *)
PushResult_Flattened(results, result) ==
  IF result.t = "array" THEN results \o result.a ELSE Append(results, result)

(* results.unshift(result) *)
PushResult_Unshift(results, result) == <<result>> \o results

(* results.push(result) *)
PushResult(results, result) == Append(results, result)

(* const result = await executable.execute(ctx); results.push(result) *)
PlanAwaitValue ==
  /\ Running
  /\ Top.st = "await"
  /\ ret.k = "value"
  /\ stack' = SetTop([Top EXCEPT !.st = "loop", !.i = @ + 1,
                                 !.results = PushResult(@, ret.v)])
  /\ ret' = None
  /\ UNCHANGED <<other, fn, variant, executables, pc, ctx, outcome, log, effects, trace>>

(* a plan that wraps the member's failure in an error of its own *)
Rethrow_Wrapped(e) == [t |-> "error", name |-> "PlanError", cause |-> e]

(* what the plan's promise rejects with when the awaited member rejected
   with e: the await rethrows and nothing catches *)
Rethrow(e) == e

(* a plan that catches the member's failure and goes on with the loop *)
PlanAwaitError_Swallowed ==
  /\ Running
  /\ Top.st = "await"
  /\ ret.k = "error"
  /\ stack' = SetTop([Top EXCEPT !.st = "loop", !.i = @ + 1,
                                 !.results = Append(@, Undefined)])
  /\ ret' = None
  /\ UNCHANGED <<other, fn, variant, executables, pc, ctx, outcome, log, effects, trace>>

PlanAwaitError ==
  /\ Running
  /\ Top.st = "await"
  /\ ret.k = "error"
  /\ stack' = Pop
  /\ ret' = Throw(Rethrow(ret.v))
  /\ trace' = Append(trace, Settled(Throw(Rethrow(ret.v)), Top.node))
  /\ UNCHANGED <<other, fn, variant, executables, pc, ctx, outcome, log, effects>>

(* the promise of the top-level call settles *)
Settle ==
  /\ pc = "run"
  /\ stack = <<>>
  /\ ret.k # "none"
  /\ outcome' = ret
  /\ pc' = "done"
  /\ UNCHANGED <<other, fn, variant, executables, ctx, stack, ret, log, effects, trace>>

Next ==
  \/ \E p \in Plans : \E e \in Addable(p) : Add(p, e)
  \/ \E n \in Nodes : \E c \in Contexts : Execute(n, c)
  \/ StepExecuteDryRun
  \/ StepExecuteRun
  \/ ActionExecuteDryRun
  \/ ActionExecuteRun
  \/ PlanExecute
  \/ PlanActionExecuteRun
  \/ PlanLoop
  \/ PlanAwaitValue
  \/ PlanAwaitError
  \/ \E o \in HandlerOutcomes : HandlerSettle(o)
  \/ \E o \in ExecOutcomes : ExecCallback(o)
  \/ Settle

Spec == Init /\ [][Next]_vars

(* ---------------- a call that is under way goes on ---------------- *)
(* the steps of a call once execute has been entered: continuations the
   event loop runs, and the callbacks of handlers and processes *)
Advance ==
  \/ StepExecuteDryRun
  \/ StepExecuteRun
  \/ ActionExecuteDryRun
  \/ ActionExecuteRun
  \/ PlanExecute
  \/ PlanActionExecuteRun
  \/ PlanLoop
  \/ PlanAwaitValue
  \/ PlanAwaitError
  \/ \E o \in HandlerOutcomes : HandlerSettle(o)
  \/ \E o \in ExecOutcomes : ExecCallback(o)
  \/ Settle

(* every leaf that was started settles and every continuation runs *)
LiveSpec == Init /\ [][Next]_vars /\ WF_vars(Advance)

(* ---------------- plans that contain themselves ---------------- *)
(* add takes any executable: here also the plan itself and the plan that
   holds it *)
CycleAddable(p) ==
  IF p = "cleanup" THEN {"delete-tmp", "delete-dist", "cleanup", "sub-plan"}
  ELSE {"delete-tmp", "cleanup"}

RangeError == [t |-> "error", name |-> "RangeError",
               message |-> "Maximum call stack size exceeded"]

(* the nesting of calls has reached the depth the model follows: the
   recursion goes on (no step here), or the engine runs out of stack and
   the call throws *)
StackOverflow ==
  /\ Running
  /\ Top.st = "loop"
  /\ NextMember(Top) # 0
  /\ Len(stack) = MaxDepth
  /\ stack' = Pop
  /\ ret' = Throw(RangeError)
  /\ trace' = Append(trace, Settled(Throw(RangeError), Top.node))
  /\ UNCHANGED <<other, fn, variant, executables, pc, ctx, outcome, log, effects>>

NextCycle ==
  \/ \E p \in Plans : \E e \in CycleAddable(p) : Add(p, e)
  \/ \E n \in Nodes : \E c \in Contexts : Execute(n, c)
  \/ Advance
  \/ StackOverflow

SpecCycle == Init /\ [][NextCycle]_vars

(* ---------------- two calls of execute on one plan ---------------- *)
(* the running call has reached an await whose promise is pending or whose
   continuation is queued: the event loop may run something else *)
AtAwait ==
  /\ pc = "run"
  /\ \/ Len(stack) > 0 /\ Top.st = "io"
     \/ ret.k # "none"

(* the running call as it is set aside *)
Suspended ==
  [pc |-> pc, ctx |-> ctx, stack |-> stack, ret |-> ret, outcome |-> outcome,
   trace |-> trace]

(* the plans and contexts of the overlapping calls *)
SharedAddable == {"delete-tmp", "delete-dist"}
SharedContexts ==
  { Context("/work", "true", NoEnv), Context("/work", "false", Env([TEST_ENV |-> "1"])) }

(* plan.execute(c) is called again while the first call is pending *)
ExecuteAgain(c) ==
  /\ AtAwait
  /\ other.pc = "none"
  /\ trace[1].node \in Plans
  /\ other' = Suspended
  /\ pc' = "run"
  /\ ctx' = c
  /\ stack' = <<Frame(trace[1].node, c, "call")>>
  /\ ret' = None
  /\ outcome' = None
  /\ trace' = <<Event("start", trace[1].node, 0, "", None)>>
  /\ UNCHANGED <<fn, variant, executables, log, effects>>

(* a plan that keeps results in a field: the call that resumes finds what
   the other call has collected *)
Switch_SharedResults ==
  /\ other.pc = "run"
  /\ AtAwait \/ pc = "done"
  /\ other' = Suspended
  /\ pc' = other.pc
  /\ ctx' = other.ctx
  /\ stack' = IF Len(stack) > 0 /\ Len(other.stack) > 0
               THEN [other.stack EXCEPT ![1].results = stack[1].results]
               ELSE other.stack
  /\ ret' = other.ret
  /\ outcome' = other.outcome
  /\ trace' = other.trace
  /\ UNCHANGED <<fn, variant, executables, log, effects>>

(* the event loop turns to the other call: the running call is at an await
   or has settled *)
Switch ==
  /\ other.pc = "run"
  /\ AtAwait \/ pc = "done"
  /\ other' = Suspended
  /\ pc' = other.pc
  /\ ctx' = other.ctx
  /\ stack' = other.stack
  /\ ret' = other.ret
  /\ outcome' = other.outcome
  /\ trace' = other.trace
  /\ UNCHANGED <<fn, variant, executables, log, effects>>

NextOverlap ==
  \/ \E e \in SharedAddable : Add("cleanup", e)
  \/ \E c \in SharedContexts : Execute("cleanup", c)
  \/ \E c \in SharedContexts : ExecuteAgain(c)
  \/ Switch
  \/ Advance

SpecOverlap == Init /\ [][NextOverlap]_vars

(* ---------------- a member that adds to the running plan ---------------- *)
(* the handler of the running member calls add(e) on the plan whose loop
   called it *)
MemberAdds(e) ==
  /\ Running
  /\ Len(stack) > 1
  /\ Top.st = "io"
  /\ LeafDef(Top.node).cls = "HandlerAction"
  /\ Len(executables[Caller]) < MaxMembers + MaxAppended
  /\ executables' = [executables EXCEPT ![Caller] = Push(@, e)]
  /\ trace' = Append(trace, Event("add", e, Len(stack) - 1, Top.node, None))
  /\ UNCHANGED <<other, fn, variant, pc, ctx, stack, ret, outcome, log, effects>>

NextGrow ==
  \/ \E e \in SharedAddable : Add("cleanup", e)
  \/ \E c \in Contexts : Execute("cleanup", c)
  \/ \E e \in SharedAddable : MemberAdds(e)
  \/ Advance

SpecGrow == Init /\ [][NextGrow]_vars

(* ---------------- the functions applied to drawn inputs ---------------- *)
InitFn ==
  /\ variant \in {"step", "bound"}
  /\ executables = [p \in Plans |-> <<>>]
  /\ pc = "fn"
  /\ ctx = NoCtx
  /\ stack = <<>>
  /\ ret = None
  /\ outcome = None
  /\ log = <<>>
  /\ effects = <<>>
  /\ trace = <<>>
  /\ other = NoOther
  /\ \E id \in FnIds, b \in FnBuilders, p \in FnParams, a \in FnAmbients, e \in FnEnvs :
       fn = [NoFn EXCEPT !.id = id, !.builder = b, !.params = p, !.ambient = a,
                         !.ctx = Context("/work", "false", e)]

FnRest == <<variant, executables, pc, ctx, stack, ret, outcome, log, effects, trace, other>>

(* action.describe(params) on a CommandLineAction *)
FnCommandLineDescribe ==
  /\ pc = "fn"
  /\ fn.described.k = "none"
  /\ fn' = [fn EXCEPT !.described = CommandLineDescribeWith(fn.id, fn.builder, fn.params)]
  /\ UNCHANGED FnRest

(* action.run(params, ctx) on a CommandLineAction, up to the exec call *)
FnCommandLineRun ==
  /\ pc = "fn"
  /\ fn.command.k = "none"
  /\ fn' = [fn EXCEPT !.command = RunCommand(fn.builder, fn.params),
                      !.env = Value(MergeEnv(fn.ambient, fn.ctx))]
  /\ UNCHANGED FnRest

(* action.describe(params) on an Action that does not override describe *)
FnActionDescribe ==
  /\ pc = "fn"
  /\ fn.text.k = "none"
  /\ fn' = [fn EXCEPT !.text = ActionDescribe(fn.id, fn.params)]
  /\ UNCHANGED FnRest

NextFn == FnCommandLineDescribe \/ FnCommandLineRun \/ FnActionDescribe

SpecFn == InitFn /\ [][NextFn]_vars

(* ======================= properties ======================= *)
IsPrefix(a, b) == Len(a) <= Len(b) /\ a = SubSeq(b, 1, Len(a))
Lifecycle == {"start", "end", "fail"}
Depths == 0..(Len(stack) + 1)

(* the start, end and fail events of the calls made from frame d *)
EventsAt(d) ==
  LET T(e) == e.depth = d /\ e.ev \in Lifecycle IN SelectSeq(trace, T)

(* the last execute call made from frame d at or before position m *)
LastStart(d, m) ==
  LET S == {k \in 1..m : trace[k].ev = "start" /\ trace[k].depth = d}
  IN IF S = {} THEN 0 ELSE CHOOSE k \in S : \A k2 \in S : k2 <= k

(* the members whose execute was called from frame d between a and b *)
StartsIn(a, b, d) ==
  LET T(e) == e.ev = "start" /\ e.depth = d
      sel == SelectSeq(SubSeq(trace, a, b), T)
  IN [i \in 1..Len(sel) |-> sel[i].node]

(* the member calls that resolved between a and b *)
EndsIn(a, b, d) ==
  LET T(e) == e.ev = "end" /\ e.depth = d IN SelectSeq(SubSeq(trace, a, b), T)

(* calls made from one frame never overlap: a call is followed by its own
   settlement before the next call *)
Alternating(es) ==
  \A m \in 1..Len(es) :
    IF m % 2 = 1 THEN es[m].ev = "start"
    ELSE es[m].ev \in {"end", "fail"} /\ es[m].node = es[m - 1].node

(* a plan frame whose loop is under way *)
Looping(j) == stack[j].node \in Plans /\ stack[j].st \in {"loop", "await"}

(* the completions of plans that came out of the loop of Plan.execute *)
PlanEnds == {m \in 1..Len(trace) : trace[m].ev = "end" /\ trace[m].node \in Plans}
LoopEnds == {m \in PlanEnds : trace[m].v.v.t = "array"}

(* C1: with ctx.dryRun true no handler is invoked and no process is spawned,
   whether execute is called on a Step or Action directly or reached through
   a Plan at any depth *)
C1_DryRunNeverRuns ==
  Truthy(ctx.dryRun) =>
    /\ effects = <<>>
    /\ \A m \in 1..Len(trace) : trace[m].ev \notin {"run", "cb"}
    /\ \A j \in 1..Len(stack) : stack[j].st # "io"

(* a dry run has gone through a plan inside a plan down to a leaf *)
C1_Witness ==
  /\ pc = "done"
  /\ Truthy(ctx.dryRun)
  /\ \E m \in 1..Len(trace) :
       trace[m].ev = "end" /\ trace[m].depth = 2 /\ trace[m].node \in Leaves

(* C2: a plan calls its members in the order they were added, as often as
   they were added, never calls one before the one before it has settled,
   and a member's effect happens between its call and its settlement *)
C2_InsertionOrderSequential ==
  /\ \A d \in Depths : Alternating(EventsAt(d))
  /\ \A j \in 1..Len(stack) :
       Looping(j) =>
         LET ms == StartsIn(LastStart(j - 1, Len(trace)) + 1, Len(trace), j)
         IN /\ IsPrefix(ms, executables[stack[j].node])
            /\ Len(ms) = IF stack[j].st = "await" THEN stack[j].i ELSE stack[j].i - 1
  /\ \A m \in LoopEnds :
       StartsIn(LastStart(trace[m].depth, m) + 1, m, trace[m].depth + 1)
         = executables[trace[m].node]
  /\ \A m \in 1..Len(trace) :
       trace[m].ev \in {"run", "cb"} =>
         LET k == LastStart(trace[m].depth, m)
         IN /\ k > 0
            /\ trace[k].node = trace[m].node
            /\ \A k2 \in (k + 1)..m : trace[k2].ev \in {"run", "cb"}

(* a plan holding the same member twice has run to the end for real *)
C2_Witness ==
  /\ pc = "done"
  /\ outcome.k = "value"
  /\ ~Truthy(ctx.dryRun)
  /\ trace[1].node = "cleanup"
  /\ executables["cleanup"] = <<"delete-tmp", "delete-dist", "delete-tmp">>
  /\ Len(effects) = 3

(* C3: once a member has failed nothing is started any more: no execute
   call, no handler, no command follows a failure *)
C3_FailFast ==
  \A m \in 1..Len(trace) :
    trace[m].ev = "fail" => \A m2 \in m..Len(trace) : trace[m2].ev = "fail"

(* a plan failed at a member that was not its last *)
C3_Witness ==
  /\ pc = "done"
  /\ outcome.k = "error"
  /\ trace[1].node = "cleanup"
  /\ Len(StartsIn(1, Len(trace), 1)) < Len(executables["cleanup"])
  /\ Len(effects) > 0

(* C4: a plan fails with the very failure of its first failing member, not
   wrapped and not replaced, and hands out none of the results so far *)
C4_FailureUnchanged ==
  /\ \A m \in 1..Len(trace) :
       (trace[m].ev = "fail" /\ trace[m].node \in Plans) =>
         /\ m > 1
         /\ trace[m - 1].ev = "fail"
         /\ trace[m - 1].by = trace[m].node
         /\ trace[m - 1].depth = trace[m].depth + 1
         /\ trace[m].v = trace[m - 1].v
  /\ (pc = "done" /\ \E m \in 1..Len(trace) : trace[m].ev = "fail") =>
       LET first == CHOOSE m \in 1..Len(trace) :
                      trace[m].ev = "fail" /\ \A k \in 1..(m - 1) : trace[k].ev # "fail"
       IN outcome = trace[first].v /\ outcome.k = "error"

(* a plan inside a plan failed after a member of the outer plan had
   succeeded *)
C4_Witness ==
  /\ pc = "done"
  /\ outcome.k = "error"
  /\ trace[1].node = "cleanup"
  /\ Len(EndsIn(1, Len(trace), 1)) > 0
  /\ \E m \in 1..Len(trace) : trace[m].ev = "fail" /\ trace[m].node = "sub-plan"

(* the result of the plan call that ended at m is the sequence of the
   results of its members, one per member, in insertion order *)
ResultsMatch(m) ==
  LET es == EndsIn(LastStart(trace[m].depth, m) + 1, m - 1, trace[m].depth + 1)
      r == trace[m].v.v
      members == executables[trace[m].node]
  IN /\ r.t = "array"
     /\ Len(r.a) = Len(members)
     /\ Len(es) = Len(members)
     /\ \A i \in 1..Len(members) : es[i].node = members[i] /\ r.a[i] = es[i].v.v

(* C5, as claimed: every plan call that resolves, under any ctx, resolves to
   one result per member in insertion order *)
C5_Original == \A m \in PlanEnds : ResultsMatch(m)

(* C5, amended: so it is for the Plan that extends Executable under any ctx
   and for the Plan that extends Action when ctx.dryRun is not true; the
   latter under dryRun resolves to undefined *)
C5_ResultPerMember ==
  \A m \in PlanEnds :
    IF variant = "step" \/ ~Truthy(ctx.dryRun) THEN ResultsMatch(m)
    ELSE trace[m].v = Value(Undefined)

(* a plan with a plan inside and two more members resolved *)
C5_Witness ==
  /\ pc = "done"
  /\ outcome.k = "value"
  /\ ~Truthy(ctx.dryRun)
  /\ trace[1].node = "cleanup"
  /\ executables["cleanup"] = <<"delete-tmp", "sub-plan", "delete-dist">>
  /\ Len(executables["sub-plan"]) = 2

(* the calls of Step.execute or Action.execute that resolved: under "step"
   the leaves, under "bound" every executable *)
ActionEnds ==
  LET T(e) == e.ev = "end" /\ (e.node \in Leaves \/ variant = "bound")
  IN SelectSeq(trace, T)

(* describe() of the action behind an executable *)
DescriptionOf(n) == IF n \in Plans THEN PlanDescribe(n) ELSE Describe(n)

(* C6, as claimed: in a dry run every executed action logs exactly one line,
   `[dry-run][action:<id>] <description>` with the action's id *)
C6_Original ==
  Truthy(ctx.dryRun) =>
    /\ Len(log) = Len(ActionEnds)
    /\ \A i \in 1..Len(log) :
         log[i] = "[dry-run][action:" \o ActionIdOf(ActionEnds[i].node) \o "] "
                    \o Template(DescriptionOf(ActionEnds[i].node).v)

(* C6, amended: exactly one line per executed action; an Action executed
   directly logs `[dry-run][action:<id>] <description>`, a Step logs
   `[dry-run][step:<step id>] <description>` *)
C6_DryRunLine ==
  Truthy(ctx.dryRun) =>
    /\ Len(log) = Len(ActionEnds)
    /\ \A i \in 1..Len(log) :
         LET n == ActionEnds[i].node
             tag == IF variant = "bound" THEN "action:" ELSE "step:"
         IN log[i] = "[dry-run][" \o tag \o IdOf(n) \o "] " \o Template(DescriptionOf(n).v)
    /\ (variant = "bound" /\ Len(log) > 0 /\ trace[1].node = "delete-dist") =>
         log = <<"[dry-run][action:delete-dist] rm -rf dist">>

(* an Action of the bound variant has been executed dry *)
C6_Witness ==
  /\ pc = "done"
  /\ variant = "bound"
  /\ Truthy(ctx.dryRun)
  /\ trace[1].node = "delete-tmp"
  /\ log = <<"[dry-run][action:delete-tmp] delete-tmp({\"pattern\":\"tmp\"})">>

(* the calls of Step.execute that resolved *)
StepEnds ==
  LET T(e) == e.ev = "end" /\ e.node \in Leaves IN SelectSeq(trace, T)

(* C7: a Step executed dry logs exactly `[dry-run][step:<step id>] ` followed
   by the description its action gives of the step's params, which for a
   handler action is `<action id>(<JSON of the params>)`, and resolves to
   undefined *)
C7_StepDryRunLine ==
  (variant = "step" /\ Truthy(ctx.dryRun)) =>
    /\ Len(log) = Len(StepEnds)
    /\ \A i \in 1..Len(log) :
         LET n == StepEnds[i].node
         IN /\ StepEnds[i].v = Value(Undefined)
            /\ n = "delete-tmp" =>
                 log[i] = "[dry-run][step:delete-tmp] handler({\"pattern\":\"tmp\"})"
            /\ n = "delete-dist" => log[i] = "[dry-run][step:delete-dist] rm -rf dist"
            /\ n \notin {"delete-tmp", "delete-dist"} =>
                 log[i] = "[dry-run][step:" \o n \o "] " \o LeafDef(n).actionId
                            \o "(" \o Template(JSONStringify(LeafDef(n).params).v) \o ")"

(* a Step has been executed dry on its own *)
C7_Witness ==
  /\ pc = "done"
  /\ variant = "step"
  /\ Truthy(ctx.dryRun)
  /\ trace[1].node = "delete-tmp"
  /\ outcome = Value(Undefined)
  /\ Len(log) = 1

(* the dry-run lines of the leaves below n, in the order of the members *)
RECURSIVE DryLines(_)
DryLines(n) ==
  IF n \in Leaves
  THEN IF DescriptionOf(n).k = "error" THEN <<>>
       ELSE << "[dry-run][" \o (IF variant = "bound" THEN "action:" ELSE "step:")
                 \o IdOf(n) \o "] " \o Template(DescriptionOf(n).v) >>
  ELSE LET RECURSIVE Cat(_)
           Cat(k) == IF k = 0 THEN <<>> ELSE Cat(k - 1) \o DryLines(executables[n][k])
       IN Cat(Len(executables[n]))

Root == trace[1].node
DryPlanRun == pc # "build" /\ Truthy(ctx.dryRun) /\ Root \in Plans

(* every member of the root plan was called, in insertion order, and the
   log holds the members' lines in that order *)
VisitsAll ==
  /\ StartsIn(1, Len(trace), 1) = executables[Root]
  /\ log = DryLines(Root)

(* C8, as claimed: every plan executed dry visits its members and logs their
   lines in insertion order *)
C8_Original ==
  /\ DryPlanRun => effects = <<>>
  /\ (DryPlanRun /\ pc = "done" /\ outcome.k = "value") => VisitsAll

(* C8, amended: so does the Plan that extends Executable; the Plan that
   extends Action logs one line of its own,
   `[dry-run][action:<id>] <id> [<member ids>]`, and calls no member *)
C8_PlanDryRun ==
  /\ DryPlanRun => effects = <<>>
  /\ (DryPlanRun /\ variant = "step") =>
       /\ IsPrefix(log, DryLines(Root))
       /\ IsPrefix(StartsIn(1, Len(trace), 1), executables[Root])
       /\ (pc = "done" /\ outcome.k = "value") => VisitsAll
       /\ (pc = "done" /\ executables[Root] = <<"delete-tmp", "delete-dist">>) =>
            log = << "[dry-run][step:delete-tmp] handler({\"pattern\":\"tmp\"})",
                     "[dry-run][step:delete-dist] rm -rf dist" >>
  /\ (DryPlanRun /\ variant = "bound" /\ pc = "done") =>
       /\ StartsIn(1, Len(trace), 1) = <<>>
       /\ log = << "[dry-run][action:" \o Root \o "] " \o Root \o " ["
                     \o Join(executables[Root], ", ") \o "]" >>
       /\ outcome = Value(Undefined)

(* the plan delete-tmp, delete-dist has been executed dry *)
C8_Witness ==
  /\ pc = "done"
  /\ variant = "step"
  /\ Truthy(ctx.dryRun)
  /\ Root = "cleanup"
  /\ executables["cleanup"] = <<"delete-tmp", "delete-dist">>
  /\ Len(log) = 2

(* the call, at or before m, that was open at frame d when m happened: 0
   when no call was open *)
OpenCall(d, m) ==
  LET S == {k \in 1..m : trace[k].depth = d /\ trace[k].ev \in Lifecycle}
      last == CHOOSE k \in S : \A k2 \in S : k2 <= k
  IN IF S = {} THEN 0 ELSE IF trace[last].ev = "start" THEN last ELSE 0

(* C9: the members of an inner plan are called in the inner plan's order
   while the inner plan's own call is open (so after the outer member before
   it has settled and before the next is called), and the inner plan's
   result is one element, a sequence, at its place in the outer result *)
C9_NestedPlan ==
  /\ \A m \in 1..Len(trace) :
       trace[m].depth >= 1 =>
         LET k == OpenCall(trace[m].depth - 1, m)
         IN k > 0 /\ trace[k].node = trace[m].by
  /\ \A d \in Depths : Alternating(EventsAt(d))
  /\ \A m \in LoopEnds :
       LET d == trace[m].depth
           s == LastStart(d, m)
           members == executables[trace[m].node]
           es == EndsIn(s + 1, m - 1, d + 1)
           r == trace[m].v.v.a
       IN /\ StartsIn(s + 1, m, d + 1) = members
          /\ Len(r) = Len(members)
          /\ \A i \in 1..Len(members) :
               members[i] \in Plans =>
                 /\ r[i].t = "array"
                 /\ Len(r[i].a) = Len(executables[members[i]])
                 /\ r[i] = es[i].v.v

(* a plan between two other members has run and the outer plan resolved *)
C9_Witness ==
  /\ pc = "done"
  /\ outcome.k = "value"
  /\ variant = "bound"
  /\ ~Truthy(ctx.dryRun)
  /\ Root = "cleanup"
  /\ executables["cleanup"] = <<"delete-dist", "sub-plan", "delete-tmp">>
  /\ executables["sub-plan"] = <<"delete-tmp", "delete-dist">>
  /\ outcome.v.a[2] = Arr(<<Str("delete-tmp-result"), CommandResult("out\n", "")>>)

(* C10: when exec reports a failed spawn, a non-zero exit or a kill, run
   rejects with the error exec handed over, which carries the cause and the
   command string, and no { stdout, stderr } is returned *)
C10_CommandFailure ==
  \A m \in 1..Len(trace) :
    (trace[m].ev = "cb" /\ LeafDef(trace[m].node).cls = "CommandLineAction") =>
      /\ m < Len(trace)
      /\ trace[m + 1].node = trace[m].node
      /\ IF trace[m].v.v.t = "null"
         THEN trace[m + 1].ev = "end" /\ trace[m + 1].v.v.t = "CommandResult"
         ELSE /\ trace[m + 1].ev = "fail"
              /\ trace[m + 1].v.k = "error"
              /\ trace[m + 1].v.v = trace[m].v.v
              /\ trace[m + 1].v.v.cmd = "rm -rf dist"
              /\ trace[m + 1].v.v.cause \in {"code:1", "signal:SIGTERM", "spawn:ENOENT"}

(* a command could not be spawned and the call failed with that error *)
C10_Witness ==
  /\ pc = "done"
  /\ outcome.k = "error"
  /\ outcome.v.name = "ExecException"
  /\ outcome.v.cause = "spawn:ENOENT"
  /\ Root = "delete-dist"

(* C11: what a handler throws or rejects with is the failure of the action's
   execute, the same value, and it is what every enclosing plan and the
   top-level caller get *)
C11_HandlerFailureVerbatim ==
  \A m \in 1..Len(trace) :
    (/\ trace[m].ev = "cb"
     /\ LeafDef(trace[m].node).cls = "HandlerAction"
     /\ trace[m].v.k = "error") =>
      /\ trace[m].v.v = HandlerFailure(trace[m].node, trace[m].v.v.how)
      /\ trace[m].v.v.how \in {"throw", "reject"}
      /\ \A m2 \in (m + 1)..Len(trace) :
           trace[m2].ev = "fail" /\ trace[m2].v = trace[m].v
      /\ trace[m + 1].node = trace[m].node
      /\ pc = "done" => (outcome = trace[m].v /\ Len(trace) = m + 1 + trace[m].depth)

(* a handler two plans down threw and the top-level call failed with it *)
C11_Witness ==
  /\ pc = "done"
  /\ outcome = Throw(HandlerFailure("delete-tmp", "throw"))
  /\ \E m \in 1..Len(trace) :
       trace[m].ev = "cb" /\ trace[m].depth = 2 /\ trace[m].v.k = "error"

(* the handler calls and spawns of the run, in order *)
RunEvents == LET T(e) == e.ev = "run" IN SelectSeq(trace, T)

(* C12: without dryRun, execute on a leaf invokes the action's run exactly
   once, with the bound params and the ctx it was given, and settles as that
   call settles *)
C12_RunOnce ==
  (pc # "build" /\ ~Truthy(ctx.dryRun)) =>
    /\ Len(effects) = Len(RunEvents)
    /\ \A k \in 1..Len(effects) :
         /\ effects[k].node = RunEvents[k].node
         /\ effects[k].kind = "handler" =>
              /\ effects[k].params = LeafDef(effects[k].node).params
              /\ effects[k].ctx = ctx
         /\ effects[k].kind = "exec" => effects[k].cwd = ctx.cwd
    /\ \A m \in 1..Len(trace) :
         (trace[m].ev \in {"end", "fail"} /\ trace[m].node \in Leaves) =>
           /\ m > 3
           /\ trace[m - 3].ev = "start" /\ trace[m - 3].node = trace[m].node
           /\ trace[m - 2].ev = "run" /\ trace[m - 2].node = trace[m].node
           /\ trace[m - 1].ev = "cb" /\ trace[m - 1].node = trace[m].node
           /\ LeafDef(trace[m].node).cls = "HandlerAction" => trace[m].v = trace[m - 1].v
    /\ (pc = "done" /\ Root = "delete-tmp" /\ outcome.k = "value") =>
         /\ outcome = Value(Str("delete-tmp-result"))
         /\ effects = << [kind |-> "handler", node |-> "delete-tmp",
                          params |-> Obj(<< <<"pattern", "tmp">> >>), ctx |-> ctx] >>

(* a Step was executed for real under a ctx with env overrides *)
C12_Witness ==
  /\ pc = "done"
  /\ variant = "step"
  /\ Root = "delete-tmp"
  /\ ctx = Context("/work", "false", Env([TEST_ENV |-> "1"]))
  /\ outcome = Value(Str("delete-tmp-result"))
  /\ Len(effects) = 1

(* the command a builder is to give for params; "" where it gives none *)
ExpectedCommand(b, p) ==
  CASE b = "default" /\ p = Obj(<< <<"command", "echo \"hello\"">> >>) -> "echo \"hello\""
    [] b = "default" /\ p = Obj(<< <<"pattern", "dist">>, <<"command", "ls">> >>) -> "ls"
    [] b = "rm" /\ p = Obj(<< <<"pattern", "dist">>, <<"command", "ls">> >>) -> "rm -rf dist"
    [] b = "rm" /\ p.t \in {"object", "circular"} /\ p # Obj(<< <<"pattern", "dist">>, <<"command", "ls">> >>)
         -> "rm -rf undefined"
    [] OTHER -> ""

(* C13: describe of a CommandLineAction is the builder's output as it is,
   run hands the output of the same builder to exec, and without a builder
   of its own the command is params.command *)
C13_DescribeIsCommand ==
  /\ (fn.described.k # "none" /\ ExpectedCommand(fn.builder, fn.params) # "") =>
       fn.described = Value(Str(ExpectedCommand(fn.builder, fn.params)))
  /\ (fn.command.k # "none" /\ ExpectedCommand(fn.builder, fn.params) # "") =>
       fn.command = Value(Str(ExpectedCommand(fn.builder, fn.params)))
  /\ (fn.described.k # "none" /\ fn.command.k # "none") => fn.described = fn.command
  /\ (fn.described.k # "none" /\ fn.builder = "default" /\ fn.params.t = "object") =>
       fn.described = Value(Lookup(fn.params.kv, "command"))

(* a command has been described and handed to exec *)
C13_Witness ==
  /\ pc = "fn"
  /\ fn.builder = "rm"
  /\ fn.described = Value(Str("rm -rf dist"))
  /\ fn.command = Value(Str("rm -rf dist"))

(* C14: the environment of the spawned process is the ambient environment
   overridden by ctx.env: ctx.env's value for each of its keys, the ambient
   value for every other ambient key, and the ambient environment itself
   when ctx.env is omitted *)
C14_EnvMerge ==
  fn.env.k # "none" =>
    LET env == fn.env.v
        over == fn.ctx.env.map
    IN /\ fn.ctx.env.set =>
            /\ DOMAIN env = (DOMAIN fn.ambient) \cup (DOMAIN over)
            /\ \A k \in DOMAIN over : env[k] = over[k]
            /\ \A k \in (DOMAIN fn.ambient) \ (DOMAIN over) : env[k] = fn.ambient[k]
       /\ ~fn.ctx.env.set => env = fn.ambient

(* an override met an ambient variable of the same name *)
C14_Witness ==
  /\ pc = "fn"
  /\ fn.env.k = "value"
  /\ fn.ambient = [PATH |-> "/bin", TEST_ENV |-> "0"]
  /\ fn.env.v = [PATH |-> "/bin", TEST_ENV |-> "1", HOME |-> "/root"]

(* the JSON text of the params that have one *)
ExpectedJSON(p) ==
  CASE p = Obj(<<>>) -> "{}"
    [] p = Obj(<< <<"value", "abc">> >>) -> "{\"value\":\"abc\"}"
    [] p = Obj(<< <<"command", "echo \"hello\"">> >>) -> "{\"command\":\"echo \\\"hello\\\"\"}"
    [] p = Obj(<< <<"pattern", "dist">>, <<"command", "ls">> >>)
         -> "{\"pattern\":\"dist\",\"command\":\"ls\"}"
    [] p = Undefined -> "undefined"

(* C15: describe of an Action that does not override it is the id followed
   by the JSON of the params in parentheses *)
C15_DefaultDescribe ==
  (fn.text.k # "none" /\ fn.params # Circular) =>
    fn.text = Value(Str(fn.id \o "(" \o ExpectedJSON(fn.params) \o ")"))

(* the action sample has described the params { value: 'abc' } *)
C15_Witness ==
  /\ pc = "fn"
  /\ fn.id = "sample"
  /\ fn.text = Value(Str("sample({\"value\":\"abc\"})"))

(* C16: no step of an execution changes the context the caller passed, and
   every call in progress, at every depth, and every handler that has run
   holds that same context *)
C16_ContextShared ==
  [][(pc' # "build") =>
       /\ (pc # "build") => ctx' = ctx
       /\ \A k \in 1..Len(stack') : stack'[k].ctx = ctx'
       /\ \A k \in 1..Len(effects') :
            effects'[k].kind = "handler" => effects'[k].ctx = ctx']_vars

(* a handler two plans deep has run with the caller's context *)
C16_Witness ==
  /\ pc = "run"
  /\ Len(stack) = 3
  /\ ctx = Context("/work", "false", Env([TEST_ENV |-> "1"]))
  /\ stack[3].ctx = ctx
  /\ Len(effects) > 0
  /\ effects[Len(effects)].kind = "handler"
  /\ effects[Len(effects)].node = stack[3].node

(* the handler and exec calls begun before position m whose callback has
   not come by then *)
InFlight(m) ==
  {k \in 1..m : /\ trace[k].ev = "run"
                /\ ~\E k2 \in (k + 1)..m : trace[k2].ev = "cb" /\ trace[k2].node = trace[k].node
                                            /\ trace[k2].depth = trace[k].depth}

(* the members called from frame d that have not settled *)
Executing(d) ==
  {k \in 1..Len(trace) :
     /\ trace[k].ev = "start" /\ trace[k].depth = d
     /\ ~\E k2 \in (k + 1)..Len(trace) :
          trace[k2].depth = d /\ trace[k2].ev \in {"end", "fail"}}

(* C17: at every moment at most one member of a plan is executing: a plan
   has at most one member call that has not settled, at most one handler or
   process is under way, and a member is called only when nothing begun by
   an earlier member is still under way *)
C17_OneAtATime ==
  /\ \A d \in Depths \ {0} : Cardinality(Executing(d)) <= 1
  /\ Cardinality(InFlight(Len(trace))) <= 1
  /\ \A m \in 1..Len(trace) :
       (trace[m].ev \in {"start", "run"} /\ trace[m].depth >= 1) => InFlight(m - 1) = {}

(* the second member of a plan is under way after the first has run *)
C17_Witness ==
  /\ pc = "run"
  /\ Len(stack) = 2
  /\ stack[1].i = 2
  /\ stack[2].st = "io"
  /\ Len(RunEvents) = 2
  /\ Cardinality(Executing(1)) = 1

(* the settlements of the calls on leaf actions *)
LeafSettles == {m \in 1..Len(trace) : trace[m].ev \in {"end", "fail"} /\ trace[m].node \in Leaves}

(* C18: with ctx.dryRun true a call on an action fails exactly when its
   describe throws, and then with the exception describe threw; it never
   fails because of a handler or a process, none of which is started *)
C18_DryRunFailure ==
  Truthy(ctx.dryRun) =>
    /\ effects = <<>>
    /\ \A m \in LeafSettles :
         /\ trace[m].ev = "fail" <=> DescriptionOf(trace[m].node).k = "error"
         /\ trace[m].ev = "fail" <=> trace[m].node = "bad"
         /\ trace[m].ev = "fail" =>
              /\ trace[m].v = Throw(TypeError("Converting circular structure to JSON"))
              /\ trace[m - 1].ev = "start" /\ trace[m - 1].node = "bad"
    /\ \A m \in 1..Len(trace) :
         (variant = "bound" /\ trace[m].node \in Plans) => trace[m].ev # "fail"
    /\ (pc = "done" /\ outcome.k = "error") =>
         outcome = Throw(TypeError("Converting circular structure to JSON"))

(* a dry run of a plan logged its first member and failed at the member
   whose describe throws *)
C18_Witness ==
  /\ pc = "done"
  /\ Truthy(ctx.dryRun)
  /\ Root = "cleanup"
  /\ executables["cleanup"] = <<"delete-tmp", "bad", "delete-dist">>
  /\ Len(log) = 1
  /\ outcome = Throw(TypeError("Converting circular structure to JSON"))

(* C19: a call of Plan.execute on a finite tree of plans, whose leaves all
   settle, settles: its promise resolves with the results or rejects with a
   failure *)
C19_PlanSettles ==
  (pc = "run" /\ Root \in Plans) ~> (pc = "done" /\ outcome.k \in {"value", "error"})

(* a plan holding a plan and leaves that run has resolved with its results *)
C19_Witness ==
  /\ pc = "done"
  /\ Root = "cleanup"
  /\ ~Truthy(ctx.dryRun)
  /\ executables["cleanup"] = <<"delete-dist", "sub-plan", "delete-tmp">>
  /\ Len(executables["sub-plan"]) = MaxInner
  /\ outcome.k = "value"
  /\ Len(effects) = 2 + MaxInner

(* the executables of plan p *)
Members(p) == {executables[p][i] : i \in 1..Len(executables[p])}

(* plan p contains itself, directly or through the other plan *)
Cyclic(p) ==
  /\ p \in Plans
  /\ \/ p \in Members(p)
     \/ \E q \in Plans \cap Members(p) : p \in Members(q)

(* C20, as claimed: add accepts a plan that contains itself, and executing
   such a plan never produces a result *)
C20_Original ==
  (pc = "done" /\ Cyclic(Root)) => outcome.k # "value"

(* C20, amended: add accepts a plan that contains itself; a call of
   Plan.execute that enters the loop over the members of such a plan never
   resolves: it fails with the failure of a member that comes before the
   plan itself, or it calls itself again and again; the Action-derived Plan
   with ctx.dryRun true does not enter the loop: it logs its one line and
   resolves with undefined *)
C20_SelfContaining ==
  /\ \A m \in 1..Len(trace) :
       (trace[m].ev = "end" /\ Cyclic(trace[m].node)) =>
         /\ variant = "bound" /\ Truthy(ctx.dryRun)
         /\ trace[m].v = Value(Undefined)
         /\ trace[m - 1] = [trace[m] EXCEPT !.ev = "start", !.v = None]
  /\ (pc = "done" /\ Cyclic(Root)) =>
       IF variant = "bound" /\ Truthy(ctx.dryRun)
       THEN outcome = Value(Undefined) /\ Len(log) = 1 /\ Len(trace) = 2 /\ effects = <<>>
       ELSE outcome.k = "error"
  /\ (pc = "done" /\ Cyclic(Root) /\ outcome.k = "error" /\ outcome.v.name # "RangeError") =>
       \E m \in 1..Len(trace) : trace[m].ev = "fail" /\ trace[m].node \in Leaves

(* a plan that was added to itself is executing inside itself, as deep as
   the model follows it *)
C20_Witness ==
  /\ pc = "run"
  /\ "cleanup" \in Members("cleanup")
  /\ Len(stack) = MaxDepth
  /\ \A j \in 1..Len(stack) : stack[j].node = "cleanup"

(* the members a call has called, in the order of the calls *)
MemberStarts(t) ==
  LET T(e) == e.ev = "start" /\ e.depth = 1
      sel == SelectSeq(t, T)
  IN [i \in 1..Len(sel) |-> sel[i].node]

(* the handlers and processes a call has started *)
MemberRuns(t) ==
  LET T(e) == e.ev = "run"
      sel == SelectSeq(t, T)
  IN [i \in 1..Len(sel) |-> sel[i].node]

(* what member n gives a call made with context c *)
ExpectedResult(n, c) ==
  IF Truthy(c.dryRun) THEN Undefined
  ELSE IF n = "delete-tmp" THEN Str("delete-tmp-result")
  ELSE CommandResult("out\n", "")

(* one of two calls on the plan cleanup keeps to the plan and to itself *)
CallIndependent(c) ==
  LET M == executables["cleanup"]
      loops == variant = "step" \/ ~Truthy(c.ctx.dryRun)
  IN /\ IF loops THEN IsPrefix(MemberStarts(c.trace), M) ELSE MemberStarts(c.trace) = <<>>
     /\ IF Truthy(c.ctx.dryRun) THEN MemberRuns(c.trace) = <<>>
        ELSE IsPrefix(MemberRuns(c.trace), M)
     /\ (c.pc = "done" /\ c.outcome.k = "value") =>
          IF loops
          THEN /\ MemberStarts(c.trace) = M
               /\ c.outcome.v = Arr([i \in 1..Len(M) |-> ExpectedResult(M[i], c.ctx)])
               /\ ~Truthy(c.ctx.dryRun) => MemberRuns(c.trace) = M
          ELSE c.outcome.v = Undefined

(* C21: of two calls of execute on one plan that overlap, each calls every
   member once in insertion order and resolves with its own sequence, made
   of the results of the member executions it started itself; every handler
   or process started belongs to one of the two calls *)
C21_OverlappingCalls ==
  other.pc # "none" =>
    /\ CallIndependent(Suspended)
    /\ CallIndependent(other)
    /\ Len(effects) = Len(MemberRuns(trace)) + Len(MemberRuns(other.trace))
    /\ ctx # other.ctx =>
         LET H(e) == e.kind = "handler" /\ e.ctx = ctx
             mine == SelectSeq(effects, H)
             R(e) == e.ev = "run" /\ LeafDef(e.node).cls = "HandlerAction"
             runs == SelectSeq(trace, R)
         IN /\ Len(mine) = Len(runs)
            /\ \A i \in 1..Len(mine) : mine[i].node = runs[i].node

(* a dry call and a real call on the same two members overlapped and each
   resolved with its own results *)
C21_Witness ==
  /\ pc = "done"
  /\ other.pc = "done"
  /\ variant = "step"
  /\ executables["cleanup"] = <<"delete-tmp", "delete-dist">>
  /\ outcome = Value(Arr(<<Str("delete-tmp-result"), CommandResult("out\n", "")>>))
  /\ other.outcome = Value(Arr(<<Undefined, Undefined>>))
  /\ Len(log) = 2
  /\ Len(effects) = 2

(* the positions of the trace where a running member added to the plan *)
Adds == {m \in 1..Len(trace) : trace[m].ev = "add"}

(* the place in the plan of the executable added at position m *)
AddedAt(m) ==
  Len(executables["cleanup"]) - Cardinality(Adds) + Cardinality({a \in Adds : a <= m})

(* the position of the k-th member call of the plan, 0 when it has not
   been made *)
StartOf(k) ==
  LET S == {m \in 1..Len(trace) :
              /\ trace[m].ev = "start" /\ trace[m].depth = 1
              /\ Cardinality({j \in 1..m : trace[j].ev = "start" /\ trace[j].depth = 1}) = k}
  IN IF S = {} THEN 0 ELSE CHOOSE m \in S : TRUE

(* C22: an executable that a running member adds to the plan being executed
   is placed after the members the plan has, is called later in the same
   call, after every member before it has settled, and its result is in the
   sequence the call resolves with, at its place *)
C22_AppendedWhileRunning ==
  LET M == executables["cleanup"]
  IN /\ pc # "build" => IsPrefix(MemberStarts(trace), M) \/ MemberStarts(trace) = <<>>
     /\ \A m \in Adds :
          LET k == AddedAt(m)
          IN /\ k \in 1..Len(M) /\ M[k] = trace[m].node
             /\ k > Len(MemberStarts(SubSeq(trace, 1, m)))
             /\ StartOf(k) # 0 =>
                  /\ StartOf(k) > m
                  /\ trace[StartOf(k)].node = trace[m].node
                  /\ Cardinality({j \in 1..StartOf(k) :
                                    trace[j].ev = "end" /\ trace[j].depth = 1}) = k - 1
             /\ (pc = "done" /\ outcome.k = "value") =>
                  /\ StartOf(k) # 0
                  /\ Len(outcome.v.a) = Len(M)
                  /\ outcome.v.a[k] = ExpectedResult(trace[m].node, ctx)

(* the only member of a plan added a command while it ran; the call ran
   the command and resolved with both results *)
C22_Witness ==
  /\ pc = "done"
  /\ Cardinality(Adds) = 1
  /\ executables["cleanup"] = <<"delete-tmp", "delete-dist">>
  /\ outcome = Value(Arr(<<Str("delete-tmp-result"), CommandResult("out\n", "")>>))
  /\ Len(effects) = 2

====
